---- MODULE Spec2Model ----
(***************************************************************************)
(* Weakest-precondition generator of RustProof                             *)
(* (src/weakest_precondition/mod.rs): gen walks the MIR basic blocks       *)
(* recursively, gen_stmt folds one assignment into the predicate.          *)
(*                                                                         *)
(* The recursion of gen is modelled with an explicit call stack: one frame *)
(* per active invocation, one action per step of the function body.        *)
(* post_expr is Some(e) throughout (the caller supplies an Expression), so *)
(* the Option wrapper is not modelled; a panic (unimplemented!,            *)
(* unreachable!, rp_error!, index out of bounds) is the value Fatal.       *)
(***************************************************************************)
EXTENDS Integers, Sequences, FiniteSets, TLC

(***************************************************************************)
(* Bounds                                                                  *)
(***************************************************************************)
\* deepest call stack the model follows before it stops pushing frames
MaxDepth == 5
\* longest statement list of the entry block of a generated CFG
MaxStmts == 2

(***************************************************************************)
(* Expression (module expression, used by mod.rs through its constructors) *)
(***************************************************************************)
BooleanLiteral(b) == [kind |-> "BooleanLiteral", value |-> b]
SignedBitVector(size, value) == [kind |-> "SignedBitVector", size |-> size, value |-> value]
UnsignedBitVector(size, value) == [kind |-> "UnsignedBitVector", size |-> size, value |-> value]
VariableMappingData(name, var_type) ==
    [kind |-> "VariableMappingData", name |-> name, var_type |-> var_type]
VariableMapping(v) == [kind |-> "VariableMapping", name |-> v.name, var_type |-> v.var_type]
UnaryExpression(op, e) == [kind |-> "UnaryExpression", op |-> op, e |-> e]
BinaryExpression(op, left, right) ==
    [kind |-> "BinaryExpression", op |-> op, left |-> left, right |-> right]

\* the value a panicking call leaves behind: no Expression at all
Fatal == [kind |-> "Fatal"]
IsFatal(v) == v.kind = "Fatal"

(***************************************************************************)
(* MIR data: types, lvalues, operands, rvalues, statements, terminators    *)
(***************************************************************************)
\* a rustc type: sty is the TypeVariants tag, t the element types of a tuple,
\* text what ty.to_string() prints
Ty(text) == [sty |-> "TyPrim", t |-> <<>>, text |-> text]
RECURSIVE JoinTexts(_)
JoinTexts(ts) ==
    IF Len(ts) = 0 THEN ""
    ELSE IF Len(ts) = 1 THEN ts[1].text
    ELSE ts[1].text \o ", " \o JoinTexts(Tail(ts))
TyTuple(ts) == [sty |-> "TyTuple", t |-> ts, text |-> "(" \o JoinTexts(ts) \o ")"]

Arg(i) == [kind |-> "Arg", index |-> i]
Temp(i) == [kind |-> "Temp", index |-> i]
Var(i) == [kind |-> "Var", index |-> i]
ReturnPointer == [kind |-> "ReturnPointer"]
Static == [kind |-> "Static"]
Field(i) == [kind |-> "Field", index |-> i]
Index == [kind |-> "Index"]
Projection(base, elem) == [kind |-> "Projection", base |-> base, elem |-> elem]

LitBool(b) == [kind |-> "Value", value |-> [kind |-> "Bool", b |-> b]]
LitInt(int_kind, v) == [kind |-> "Value", value |-> [kind |-> "Integral", int_kind |-> int_kind, v |-> v]]
LitStr(s) == [kind |-> "Value", value |-> [kind |-> "Str", s |-> s]]
LitItem(path) == [kind |-> "Item", path |-> path]
Consume(l) == [kind |-> "Consume", lvalue |-> l]
Constant(ty, literal) == [kind |-> "Constant", ty |-> ty, literal |-> literal]

CheckedBinaryOp(binop, l, r) == [kind |-> "CheckedBinaryOp", binop |-> binop, l |-> l, r |-> r]
BinaryOp(binop, l, r) == [kind |-> "BinaryOp", binop |-> binop, l |-> l, r |-> r]
UnaryOp(unop, val) == [kind |-> "UnaryOp", unop |-> unop, val |-> val]
Use(operand) == [kind |-> "Use", operand |-> operand]
Aggregate(ag_kind, operands) == [kind |-> "Aggregate", ag_kind |-> ag_kind, operands |-> operands]
Cast(operand, ty) == [kind |-> "Cast", operand |-> operand, ty |-> ty]
Ref(l) == [kind |-> "Ref", lvalue |-> l]
Box(ty) == [kind |-> "Box", ty |-> ty]
LenOf(l) == [kind |-> "Len", lvalue |-> l]
Repeat(operand) == [kind |-> "Repeat", operand |-> operand]

Assign(lvalue, rvalue) == [kind |-> "Assign", lvalue |-> lvalue, rvalue |-> rvalue]

Goto(target) == [kind |-> "Goto", target |-> target]
AssertTerm(cond, target) == [kind |-> "Assert", cond |-> cond, target |-> target]
Return == [kind |-> "Return"]
Call(func, args) == [kind |-> "Call", func |-> func, args |-> args]
If(cond, t0, t1) == [kind |-> "If", cond |-> cond, targets |-> <<t0, t1>>]
Unsupported(k) == [kind |-> k]
BasicBlockData(statements, terminator) ==
    [statements |-> statements, terminator |-> terminator]

\* s.contains(t)
Contains(s, t) ==
    \E i \in 1..(Len(s) - Len(t) + 1) : SubSeq(s, i, i + Len(t) - 1) = t

\* Vec::reverse
RECURSIVE Reverse(_)
Reverse(s) == IF s = <<>> THEN <<>> ELSE Append(Reverse(Tail(s)), Head(s))

(***************************************************************************)
(* Type & literal resolver                                                 *)
(***************************************************************************)
\* expression::string_to_type: declared type text to semantic type
string_to_type(text) ==
    CASE text = "bool" -> "Bool"
      [] text = "i8" -> "I8"
      [] text = "i16" -> "I16"
      [] text = "i32" -> "I32"
      [] text = "i64" -> "I64"
      [] text = "u8" -> "U8"
      [] text = "u16" -> "U16"
      [] text = "u32" -> "U32"
      [] text = "u64" -> "U64"
      [] OTHER -> "Fatal"

\* expression::is_signed_type
is_signed_type(ty) == ty \in {"I8", "I16", "I32", "I64"}

\* bit width of an integer semantic type (0: not an integer type)
WidthOf(ty) ==
    CASE ty \in {"I8", "U8"} -> 8
      [] ty \in {"I16", "U16"} -> 16
      [] ty \in {"I32", "U32"} -> 32
      [] ty \in {"I64", "U64"} -> 64
      [] OTHER -> 0

RelationalOps ==
    {"LessThan", "LessThanOrEqual", "GreaterThan", "GreaterThanOrEqual",
     "Equal", "NotEqual", "And", "Or", "Implication"}

\* expression::determine_evaluation_type: the type an Expression evaluates to
RECURSIVE determine_evaluation_type(_)
determine_evaluation_type(e) ==
    CASE e.kind = "BooleanLiteral" -> "Bool"
      [] e.kind = "VariableMapping" -> e.var_type
      [] e.kind = "SignedBitVector" ->
            (CASE e.size = 8 -> "I8" [] e.size = 16 -> "I16"
               [] e.size = 32 -> "I32" [] e.size = 64 -> "I64" [] OTHER -> "Fatal")
      [] e.kind = "UnsignedBitVector" ->
            (CASE e.size = 8 -> "U8" [] e.size = 16 -> "U16"
               [] e.size = 32 -> "U32" [] e.size = 64 -> "U64" [] OTHER -> "Fatal")
      [] e.kind = "UnaryExpression" ->
            IF e.op = "Not" THEN "Bool" ELSE determine_evaluation_type(e.e)
      [] e.kind = "BinaryExpression" ->
            IF e.op \in RelationalOps THEN "Bool" ELSE determine_evaluation_type(e.left)
      [] OTHER -> "Fatal"

\* gen_ty: the semantic type of an operand
gen_ty(operand, data) ==
    IF operand.kind = "Constant" THEN string_to_type(operand.ty.text)
    ELSE LET lvalue == operand.lvalue IN
         CASE lvalue.kind = "Arg" -> string_to_type(data.arg_data[lvalue.index + 1].ty.text)
           [] lvalue.kind = "Temp" -> string_to_type(data.temp_data[lvalue.index + 1].ty.text)
           [] lvalue.kind = "Var" -> string_to_type(data.var_data[lvalue.index + 1].ty.text)
           [] OTHER -> "Fatal"

\* a VariableMappingData whose type did not resolve is a panic
Mapping(name, ty) == IF ty = "Fatal" THEN Fatal ELSE VariableMappingData(name, ty)

\* gen_lvalue: the VariableMappingData of a storage location
gen_lvalue(lvalue, data) ==
    CASE lvalue.kind = "Arg" ->
            IF lvalue.index >= Len(data.arg_data) THEN Fatal
            ELSE Mapping(data.arg_data[lvalue.index + 1].debug_name,
                         string_to_type(data.arg_data[lvalue.index + 1].ty.text))
      [] lvalue.kind = "Temp" ->
            IF lvalue.index >= Len(data.temp_data) THEN Fatal
            ELSE LET decl == data.temp_data[lvalue.index + 1].ty
                     ty == IF decl.sty = "TyTuple" /\ Len(decl.t) > 0
                           THEN decl.t[1].text ELSE decl.text
                 IN  Mapping("tmp" \o ToString(lvalue.index), string_to_type(ty))
      [] lvalue.kind = "Var" ->
            IF lvalue.index >= Len(data.var_data) THEN Fatal
            ELSE Mapping("var" \o ToString(lvalue.index),
                         string_to_type(data.var_data[lvalue.index + 1].ty.text))
      [] lvalue.kind = "ReturnPointer" ->
            VariableMappingData("return", data.func_return_type)
      [] lvalue.kind = "Projection" ->
            IF lvalue.elem.kind # "Field" THEN Fatal
            ELSE LET index == ToString(lvalue.elem.index)
                     base == lvalue.base
                 IN  CASE base.kind = "Arg" ->
                            IF base.index >= Len(data.arg_data) THEN Fatal
                            ELSE Mapping(data.arg_data[base.index + 1].debug_name \o "." \o index,
                                         string_to_type(data.arg_data[base.index + 1].ty.text))
                       [] base.kind = "Temp" ->
                            IF base.index >= Len(data.temp_data) THEN Fatal
                            ELSE LET decl == data.temp_data[base.index + 1].ty IN
                                 IF decl.sty = "TyTuple" /\ Len(decl.t) > 0
                                 THEN Mapping("tmp" \o ToString(base.index) \o "." \o index,
                                              string_to_type(decl.t[1].text))
                                 ELSE Fatal
                       [] base.kind = "Var" ->
                            IF base.index >= Len(data.var_data) THEN Fatal
                            ELSE LET decl == data.var_data[base.index + 1].ty
                                     i == lvalue.elem.index
                                 IN  IF decl.sty = "TyTuple" /\ i < Len(decl.t)
                                     THEN Mapping("var" \o ToString(base.index) \o "." \o index,
                                                  string_to_type(decl.t[i + 1].text))
                                     ELSE Fatal
                       [] OTHER -> Fatal
      [] OTHER -> Fatal

\* gen_expression: the Expression of an operand
gen_expression(operand, data) ==
    IF operand.kind = "Consume"
    THEN LET v == gen_lvalue(operand.lvalue, data) IN
         IF IsFatal(v) THEN Fatal ELSE VariableMapping(v)
    ELSE IF operand.literal.kind # "Value" THEN Fatal
    ELSE LET value == operand.literal.value IN
         CASE value.kind = "Bool" -> BooleanLiteral(value.b)
           [] value.kind = "Integral" ->
                (CASE value.int_kind = "I8" -> SignedBitVector(8, value.v)
                   [] value.int_kind = "I16" -> SignedBitVector(16, value.v)
                   [] value.int_kind = "I32" -> SignedBitVector(32, value.v)
                   [] value.int_kind = "I64" -> SignedBitVector(64, value.v)
                   [] value.int_kind = "U8" -> UnsignedBitVector(8, value.v)
                   [] value.int_kind = "U16" -> UnsignedBitVector(16, value.v)
                   [] value.int_kind = "U32" -> UnsignedBitVector(32, value.v)
                   [] value.int_kind = "U64" -> UnsignedBitVector(64, value.v)
                   [] OTHER -> Fatal)
           [] OTHER -> Fatal

\* format!("{:?}", literal) and format!("{:?}", operand)
RECURSIVE DebugLvalue(_)
DebugLvalue(l) ==
    CASE l.kind = "Arg" -> "arg" \o ToString(l.index)
      [] l.kind = "Temp" -> "tmp" \o ToString(l.index)
      [] l.kind = "Var" -> "var" \o ToString(l.index)
      [] l.kind = "ReturnPointer" -> "return"
      [] l.kind = "Projection" ->
            IF l.elem.kind = "Field"
            THEN "(" \o DebugLvalue(l.base) \o "." \o ToString(l.elem.index) \o ")"
            ELSE DebugLvalue(l.base) \o "[..]"
      [] OTHER -> "static"
DebugLiteral(lit) ==
    CASE lit.kind = "Item" -> lit.path
      [] lit.kind = "Value" ->
            (CASE lit.value.kind = "Bool" -> "const " \o ToString(lit.value.b)
               [] lit.value.kind = "Integral" -> "const " \o ToString(lit.value.v)
               [] OTHER -> "const " \o lit.value.s)
      [] OTHER -> "promoted"
DebugOperand(operand) ==
    IF operand.kind = "Consume" THEN DebugLvalue(operand.lvalue)
    ELSE DebugLiteral(operand.literal)

(***************************************************************************)
(* Substitution engine and guard generator                                 *)
(***************************************************************************)
\* expression::substitute_variable_with_expression: every VariableMapping
\* leaf equal to var (name and type) becomes a copy of expr
RECURSIVE substitute_variable_with_expression(_, _, _)
substitute_variable_with_expression(wp, var, expr) ==
    CASE wp.kind = "VariableMapping" ->
            IF wp.name = var.name /\ wp.var_type = var.var_type THEN expr ELSE wp
      [] wp.kind = "UnaryExpression" ->
            UnaryExpression(wp.op, substitute_variable_with_expression(wp.e, var, expr))
      [] wp.kind = "BinaryExpression" ->
            BinaryExpression(wp.op,
                             substitute_variable_with_expression(wp.left, var, expr),
                             substitute_variable_with_expression(wp.right, var, expr))
      [] OTHER -> wp

\* the for loop of gen_stmt over the expression vector
RECURSIVE SubstituteAll(_, _, _)
SubstituteAll(wp, var, expression) ==
    IF expression = <<>> THEN wp
    ELSE SubstituteAll(substitute_variable_with_expression(wp, var, Head(expression)),
                       var, Tail(expression))

\* largest and smallest value of an integer semantic type
MaxValue(ty) ==
    IF is_signed_type(ty) THEN (2 ^ (WidthOf(ty) - 2) - 1) * 2 + 1
    ELSE (2 ^ (WidthOf(ty) - 1) - 1) * 2 + 1
MinValue(ty) == IF is_signed_type(ty) THEN (0 - 2 ^ (WidthOf(ty) - 2)) * 2 ELSE 0
BitVector(ty, value) ==
    IF is_signed_type(ty) THEN SignedBitVector(WidthOf(ty), value)
    ELSE UnsignedBitVector(WidthOf(ty), value)

BinOpOperator(binop) ==
    CASE binop = "Add" -> "Addition"
      [] binop = "Sub" -> "Subtraction"
      [] binop = "Mul" -> "Multiplication"
      [] binop = "Div" -> "Division"
      [] binop = "Rem" -> "Modulo"
      [] binop = "BitOr" -> "BitwiseOr"
      [] binop = "BitAnd" -> "BitwiseAnd"
      [] binop = "BitXor" -> "BitwiseXor"
      [] binop = "Shl" -> "BitwiseLeftShift"
      [] binop = "Shr" -> "BitwiseRightShift"
      [] binop = "Lt" -> "LessThan"
      [] binop = "Le" -> "LessThanOrEqual"
      [] binop = "Gt" -> "GreaterThan"
      [] binop = "Ge" -> "GreaterThanOrEqual"
      [] binop = "Eq" -> "Equal"
      [] binop = "Ne" -> "NotEqual"

\* overflow::overflow_check: wp conjoined with the bound pair of var's type,
\* the unchecked result compared against the type's maximum and minimum
overflow_check(wp, var, binop, lvalue, rvalue) ==
    IF WidthOf(var.var_type) = 0 THEN Fatal
    ELSE LET result == BinaryExpression(BinOpOperator(binop), lvalue, rvalue)
             upper == BinaryExpression("LessThanOrEqual", result,
                                       BitVector(var.var_type, MaxValue(var.var_type)))
             lower == BinaryExpression("GreaterThanOrEqual", result,
                                       BitVector(var.var_type, MinValue(var.var_type)))
         IN  BinaryExpression("And", wp, BinaryExpression("And", upper, lower))

\* add_zero_check: wp conjoined with exp != 0, the zero of exp's type
add_zero_check(wp, exp) ==
    LET ty == determine_evaluation_type(exp) IN
    IF WidthOf(ty) = 0 THEN Fatal
    ELSE LET zero == IF is_signed_type(ty) THEN SignedBitVector(WidthOf(ty), 0)
                     ELSE UnsignedBitVector(WidthOf(ty), 0)
         IN  BinaryExpression("And", wp, BinaryExpression("NotEqual", exp, zero))

(***************************************************************************)
(* Statement processor                                                     *)
(***************************************************************************)
CheckedBinOps == {"Add", "Sub", "Mul", "Div", "Rem", "Shl", "Shr"}

\* the guards with the overflow pair conjoined for unsigned division as well
BinOpGuardsUnsignedOverflow(wp, var, binop, lvalue, rvalue) ==
    CASE binop \in {"Add", "Sub", "Mul"} ->
            overflow_check(wp, var, binop, lvalue, rvalue)
      [] binop \in {"Div", "Rem"} ->
            LET checked == overflow_check(wp, var, binop, lvalue, rvalue)
            IN  IF IsFatal(checked) THEN Fatal ELSE add_zero_check(checked, rvalue)
      [] OTHER -> wp

\* the match on binop inside gen_stmt: the guards conjoined to wp before the
\* target is substituted
BinOpGuards(wp, var, binop, lvalue, rvalue) ==
    CASE binop \in {"Add", "Sub", "Mul"} ->
            overflow_check(wp, var, binop, lvalue, rvalue)
      [] binop \in {"Div", "Rem"} ->
            LET checked == IF is_signed_type(determine_evaluation_type(rvalue))
                           THEN overflow_check(wp, var, binop, lvalue, rvalue)
                           ELSE wp
            IN  IF IsFatal(checked) THEN Fatal ELSE add_zero_check(checked, rvalue)
      [] OTHER -> wp

\* Rvalue::Aggregate with AggregateKind::Tuple: one VariableMapping per operand
RECURSIVE TupleExpressions(_, _)
TupleExpressions(operands, data) ==
    IF operands = <<>> THEN <<>>
    ELSE <<VariableMapping(VariableMappingData(DebugOperand(Head(operands)),
                                               gen_ty(Head(operands), data)))>>
         \o TupleExpressions(Tail(operands), data)

\* the target substituted in wp alone, the guards conjoined afterwards
BinaryRvalueSubstituteFirst(wp, var, rvalue, data) ==
    LET l == gen_expression(rvalue.l, data)
        r == gen_expression(rvalue.r, data)
    IN  IF IsFatal(l) \/ IsFatal(r) THEN Fatal
        ELSE IF rvalue.kind = "CheckedBinaryOp" /\ rvalue.binop \notin CheckedBinOps
        THEN Fatal
        ELSE LET key == IF rvalue.kind = "CheckedBinaryOp"
                        THEN VariableMappingData(var.name \o ".0", var.var_type)
                        ELSE var
                 e == BinaryExpression(BinOpOperator(rvalue.binop), l, r)
             IN  BinOpGuards(SubstituteAll(wp, key, <<e>>), var, rvalue.binop, l, r)

\* the checked form keyed on the unqualified target, like the plain form
BinaryRvalueUnqualifiedKey(wp, var, rvalue, data) ==
    LET l == gen_expression(rvalue.l, data)
        r == gen_expression(rvalue.r, data)
    IN  IF IsFatal(l) \/ IsFatal(r) THEN Fatal
        ELSE IF rvalue.kind = "CheckedBinaryOp" /\ rvalue.binop \notin CheckedBinOps
        THEN Fatal
        ELSE LET guarded == BinOpGuards(wp, var, rvalue.binop, l, r)
                 e == BinaryExpression(BinOpOperator(rvalue.binop), l, r)
             IN  IF IsFatal(guarded) THEN Fatal
                 ELSE SubstituteAll(guarded, var, <<e>>)

\* Rvalue::CheckedBinaryOp and Rvalue::BinaryOp: guards first, then the
\* target (its first field for the checked form) becomes l op r
BinaryRvalue(wp, var, rvalue, data) ==
    LET l == gen_expression(rvalue.l, data)
        r == gen_expression(rvalue.r, data)
    IN  IF IsFatal(l) \/ IsFatal(r) THEN Fatal
        ELSE IF rvalue.kind = "CheckedBinaryOp" /\ rvalue.binop \notin CheckedBinOps
        THEN Fatal
        ELSE LET guarded == BinOpGuards(wp, var, rvalue.binop, l, r)
                 key == IF rvalue.kind = "CheckedBinaryOp"
                        THEN VariableMappingData(var.name \o ".0", var.var_type)
                        ELSE var
                 e == BinaryExpression(BinOpOperator(rvalue.binop), l, r)
             IN  IF IsFatal(guarded) THEN Fatal
                 ELSE SubstituteAll(guarded, key, <<e>>)

\* Rvalue::UnaryOp
UnaryRvalue(wp, var, rvalue, data) ==
    LET exp == gen_expression(rvalue.val, data) IN
    IF IsFatal(exp) THEN Fatal
    ELSE LET op == IF rvalue.unop = "Not"
                   THEN (IF determine_evaluation_type(exp) = "Bool"
                         THEN "Not" ELSE "BitwiseNot")
                   ELSE "Negation"
         IN  SubstituteAll(wp, var, <<UnaryExpression(op, exp)>>)

\* a plain read that also conjoins operand = operand to the predicate
UseRvalueExtraConjunct(wp, var, rvalue, data) ==
    LET exp == gen_expression(rvalue.operand, data) IN
    IF IsFatal(exp) THEN Fatal
    ELSE SubstituteAll(BinaryExpression("And", wp, BinaryExpression("Equal", exp, exp)),
                       var, <<exp>>)

\* Rvalue::Use
UseRvalue(wp, var, rvalue, data) ==
    LET exp == gen_expression(rvalue.operand, data) IN
    IF IsFatal(exp) THEN Fatal ELSE SubstituteAll(wp, var, <<exp>>)

\* a tuple accepted only when it has exactly two operands
AggregateRvalueOnlyPairs(wp, var, rvalue, data) ==
    IF rvalue.ag_kind # "Tuple" \/ Len(rvalue.operands) # 2 THEN Fatal
    ELSE IF \E i \in 1..Len(rvalue.operands) : gen_ty(rvalue.operands[i], data) = "Fatal"
    THEN Fatal
    ELSE SubstituteAll(wp, var, TupleExpressions(rvalue.operands, data))

\* Rvalue::Aggregate
AggregateRvalue(wp, var, rvalue, data) ==
    IF rvalue.ag_kind # "Tuple" THEN Fatal
    ELSE IF \E i \in 1..Len(rvalue.operands) : gen_ty(rvalue.operands[i], data) = "Fatal"
    THEN Fatal
    ELSE SubstituteAll(wp, var, TupleExpressions(rvalue.operands, data))

\* Rvalue::Cast and Rvalue::Ref
CastOrRefRvalue(wp, var, rvalue, data) ==
    SubstituteAll(wp, var, <<VariableMapping(var)>>)

\* gen_stmt: the predicate that holds before stmt whenever wp holds after it
gen_stmt(wp, stmt, data) ==
    LET var == gen_lvalue(stmt.lvalue, data)
        rvalue == stmt.rvalue
    IN
    IF IsFatal(var) THEN Fatal
    ELSE CASE rvalue.kind \in {"CheckedBinaryOp", "BinaryOp"} ->
                BinaryRvalue(wp, var, rvalue, data)
           [] rvalue.kind = "UnaryOp" -> UnaryRvalue(wp, var, rvalue, data)
           [] rvalue.kind = "Use" -> UseRvalue(wp, var, rvalue, data)
           [] rvalue.kind = "Aggregate" -> AggregateRvalue(wp, var, rvalue, data)
           [] rvalue.kind \in {"Cast", "Ref"} -> CastOrRefRvalue(wp, var, rvalue, data)
           [] OTHER -> Fatal

(***************************************************************************)
(* CFG walker: gen as a machine with an explicit call stack                *)
(***************************************************************************)
VARIABLES
    data,       \* MirData: block_data and the declaration tables
    post_expr,  \* the postcondition handed to the top-level call
    stack,      \* the active invocations of gen, innermost last
    outcome,    \* "running", "returned" or "fatal"
    result,     \* the Expression returned by the top-level call
    returned    \* per block index, what gen returned for it last (Unset: nothing yet)

vars == <<data, post_expr, stack, outcome, result, returned>>

\* a local that has not been assigned yet
Unset == [kind |-> "Unset"]

\* the frame of a fresh call gen(index, data, post_expr, debug)
Frame(index) ==
    [index |-> index, pc |-> "terminator", wp |-> Unset, wp_if |-> Unset,
     wp_else |-> Unset, stmts |-> <<>>]

Top == stack[Len(stack)]
Block(index) == data.block_data[index + 1]
Terminator == Block(Top.index).terminator
Running == outcome = "running" /\ stack # <<>>
AtTerminator(kinds) == Running /\ Top.pc = "terminator" /\ Terminator.kind \in kinds

SetTop(frame) == [stack EXCEPT ![Len(stack)] = frame]

\* a panic unwinds every invocation
Abort ==
    /\ stack' = <<>>
    /\ outcome' = "fatal"
    /\ result' = Fatal
    /\ UNCHANGED <<data, post_expr, returned>>

\* the statement list without the reversal
UnreversedStatements(index) == Block(index).statements

\* let mut stmts = data.block_data[index].statements.clone(); stmts.reverse();
ReversedStatements(index) == Reverse(Block(index).statements)

\* the caller's frame once the callee has returned v
Resume(caller, v) ==
    CASE caller.pc = "call_target" ->
            [caller EXCEPT !.wp = v, !.pc = "statements",
                           !.stmts = ReversedStatements(caller.index)]
      [] caller.pc = "call_if" -> [caller EXCEPT !.wp_if = v, !.pc = "else"]
      [] caller.pc = "call_else" -> [caller EXCEPT !.wp_else = v, !.pc = "condition"]

\* the innermost invocation returns v
ReturnValue(v) ==
    /\ IF Len(stack) = 1
       THEN /\ stack' = <<>>
            /\ outcome' = "returned"
            /\ result' = v
       ELSE /\ stack' = Append(SubSeq(stack, 1, Len(stack) - 2),
                               Resume(stack[Len(stack) - 1], v))
            /\ UNCHANGED <<outcome, result>>
    /\ returned' = [returned EXCEPT ![Top.index] = v]
    /\ UNCHANGED <<data, post_expr>>

\* the recursive call gen(target, ...) made from the innermost invocation
CallGen(pc, target) ==
    /\ Len(stack) < MaxDepth
    /\ stack' = Append(SetTop([Top EXCEPT !.pc = pc]), Frame(target))
    /\ UNCHANGED <<data, post_expr, outcome, result, returned>>

\* TerminatorKind::Assert{target, ..} | TerminatorKind::Goto{target}
GotoOrAssert ==
    /\ AtTerminator({"Goto", "Assert"})
    /\ CallGen("call_target", Terminator.target)

\* TerminatorKind::Return
ReturnTerminator ==
    /\ AtTerminator({"Return"})
    /\ ReturnValue(post_expr)

\* a panic call that hands the postcondition on instead of false
CallTerminatorReturnsPost ==
    /\ AtTerminator({"Call"})
    /\ IF /\ Terminator.func.kind = "Constant"
          /\ Contains(DebugLiteral(Terminator.func.literal), "begin_panic")
       THEN ReturnValue(post_expr)
       ELSE Abort

\* TerminatorKind::Call{func, ..}
CallTerminator ==
    /\ AtTerminator({"Call"})
    /\ IF /\ Terminator.func.kind = "Constant"
          /\ Contains(DebugLiteral(Terminator.func.literal), "begin_panic")
       THEN ReturnValue(BooleanLiteral(FALSE))
       ELSE Abort

\* TerminatorKind::If{cond, targets}: wp_if = gen(targets.0, ...)
IfTerminator ==
    /\ AtTerminator({"If"})
    /\ CallGen("call_if", Terminator.targets[1])

\* wp_else = gen(targets.1, ...)
IfElse ==
    /\ Running
    /\ Top.pc = "else"
    /\ CallGen("call_else", Terminator.targets[2])

\* the conditional expression of an If terminator
IfConditionExpression(cond, mir) ==
    IF cond.kind = "Constant"
    THEN IF cond.literal.kind = "Value" /\ cond.literal.value.kind = "Bool"
         THEN BooleanLiteral(cond.literal.value.b)
         ELSE Fatal
    ELSE LET v == gen_lvalue(cond.lvalue, mir) IN
         IF IsFatal(v) THEN Fatal ELSE VariableMapping(v)

\* the two implications with the successor predicates exchanged
IfWpSwapped(condition, wp_if, wp_else) ==
    BinaryExpression("And",
        BinaryExpression("Implication", condition, wp_else),
        BinaryExpression("Implication", UnaryExpression("Not", condition), wp_if))

\* wp(if c x else y) => (c -> x) AND ((NOT c) -> y)
IfWp(condition, wp_if, wp_else) ==
    BinaryExpression("And",
        BinaryExpression("Implication", condition, wp_if),
        BinaryExpression("Implication", UnaryExpression("Not", condition), wp_else))

IfCondition ==
    /\ Running
    /\ Top.pc = "condition"
    /\ LET condition == IfConditionExpression(Terminator.cond, data) IN
       IF IsFatal(condition) THEN Abort
       ELSE /\ stack' = SetTop([Top EXCEPT
                    !.wp = IfWp(condition, Top.wp_if, Top.wp_else),
                    !.pc = "statements",
                    !.stmts = ReversedStatements(Top.index)])
            /\ UNCHANGED <<data, post_expr, outcome, result, returned>>

SupportedTerminators == {"Goto", "Assert", "Return", "Call", "If"}

\* DropAndReplace, Drop, Unreachable, Resume, Switch, SwitchInt: unimplemented!()
UnimplementedTerminator ==
    /\ Running
    /\ Top.pc = "terminator"
    /\ Terminator.kind \notin SupportedTerminators
    /\ Abort

\* one turn of the loop over the reversed statements
FoldStatement ==
    /\ Running
    /\ Top.pc = "statements"
    /\ Top.stmts # <<>>
    /\ LET wp == gen_stmt(Top.wp, Head(Top.stmts), data) IN
       IF IsFatal(wp) THEN Abort
       ELSE /\ stack' = SetTop([Top EXCEPT !.wp = wp, !.stmts = Tail(Top.stmts)])
            /\ UNCHANGED <<data, post_expr, outcome, result, returned>>

\* the loop is over: wp goes back to the calling block, or to control
ReturnWp ==
    /\ Running
    /\ Top.pc = "statements"
    /\ Top.stmts = <<>>
    /\ ReturnValue(Top.wp)

(***************************************************************************)
(* Inputs: declaration table, statements, CFGs, postconditions             *)
(***************************************************************************)
\* fn f(x: i32, y: i32, a: u8, b: u8) -> i32 with temporaries
\* tmp0: bool, tmp1: (i32, bool), tmp2: i32, tmp3: u8, tmp4: (u8, bool)
\* and locals var0: i32, var1: u8
Declarations(blocks) ==
    [block_data |-> blocks,
     arg_data |-> <<[debug_name |-> "x", ty |-> Ty("i32")],
                    [debug_name |-> "y", ty |-> Ty("i32")],
                    [debug_name |-> "a", ty |-> Ty("u8")],
                    [debug_name |-> "b", ty |-> Ty("u8")]>>,
     temp_data |-> <<[ty |-> Ty("bool")],
                     [ty |-> TyTuple(<<Ty("i32"), Ty("bool")>>)],
                     [ty |-> Ty("i32")],
                     [ty |-> Ty("u8")],
                     [ty |-> TyTuple(<<Ty("u8"), Ty("bool")>>)]>>,
     var_data |-> <<[ty |-> Ty("i32")], [ty |-> Ty("u8")]>>,
     func_return_type |-> "I32"]

\* the same function with its first argument spelled differently in the source
DeclarationsNamed(blocks, first) ==
    [Declarations(blocks) EXCEPT !.arg_data[1].debug_name = first]

ArgX == Consume(Arg(0))
ArgY == Consume(Arg(1))
ArgA == Consume(Arg(2))
ArgB == Consume(Arg(3))
ConstI32(v) == Constant(Ty("i32"), LitInt("I32", v))
ConstU8(v) == Constant(Ty("u8"), LitInt("U8", v))
ConstBool(b) == Constant(Ty("bool"), LitBool(b))
PanicCallee == Constant(Ty("fn"), LitItem("std::rt::begin_panic"))
OtherCallee == Constant(Ty("fn"), LitItem("std::cmp::max"))
Tmp1Value == Projection(Temp(1), Field(0))
Tmp1Flag == Projection(Temp(1), Field(1))

\* statements the entry block of a generated CFG is made of
StmtPool ==
    { Assign(Temp(2), Use(ArgX)),
      Assign(Var(0), Use(Consume(Temp(2)))),
      Assign(Temp(2), BinaryOp("Add", Consume(Var(0)), ConstI32(1))),
      Assign(ReturnPointer, Use(Consume(Var(0)))),
      Assign(Temp(1), CheckedBinaryOp("Sub", ArgX, ConstI32(1))) }

AllBinOps ==
    {"Add", "Sub", "Mul", "Div", "Rem", "BitOr", "BitAnd", "BitXor", "Shl", "Shr",
     "Lt", "Le", "Gt", "Ge", "Eq", "Ne"}

ComparisonOps == {"Lt", "Le", "Gt", "Ge", "Eq", "Ne"}

\* statements tried one at a time: x op y into tmp2 (tmp0 for a comparison),
\* a op b into tmp3, and the checked forms into the tuples tmp1 and tmp4
BinaryStmts ==
    { Assign(IF op \in ComparisonOps THEN Temp(0) ELSE Temp(2), BinaryOp(op, ArgX, r)) :
        op \in AllBinOps, r \in {ArgY, ConstI32(3)} }
    \cup
    { Assign(IF op \in ComparisonOps THEN Temp(0) ELSE Temp(3), BinaryOp(op, ArgA, r)) :
        op \in AllBinOps, r \in {ArgB, ConstU8(3)} }
    \cup
    { Assign(Temp(1), CheckedBinaryOp(op, ArgX, r)) :
        op \in AllBinOps, r \in {ArgY, ConstI32(3)} }
    \cup
    { Assign(Temp(4), CheckedBinaryOp(op, ArgA, r)) :
        op \in AllBinOps, r \in {ArgB, ConstU8(3)} }

OtherStmts ==
    { Assign(Temp(0), UnaryOp("Not", Consume(Temp(0)))),
      Assign(Temp(2), UnaryOp("Not", ArgX)),
      Assign(Temp(2), UnaryOp("Neg", ArgX)),
      Assign(ReturnPointer, Use(Consume(Tmp1Value))),
      Assign(Temp(2), Use(ConstI32(7))),
      Assign(Temp(0), Use(ConstBool(TRUE))),
      Assign(Temp(2), Use(Constant(Ty("&str"), LitStr("s")))),
      Assign(Temp(1), Aggregate("Tuple", <<Consume(Temp(2)), Consume(Temp(0))>>)),
      Assign(Temp(1), Aggregate("Tuple", <<>>)),
      Assign(Temp(1), Aggregate("Tuple", <<Consume(Temp(2))>>)),
      Assign(Temp(1), Aggregate("Tuple", <<Consume(Temp(2)), Consume(Temp(0)), ArgX>>)),
      Assign(Temp(1), Aggregate("Tuple", <<Consume(Temp(1)), ArgX>>)),
      Assign(Temp(2), Aggregate("Adt", <<ArgX, ArgY>>)),
      Assign(Temp(2), Cast(ArgA, Ty("i32"))),
      Assign(Temp(2), Ref(Arg(0))),
      Assign(Temp(2), Box(Ty("i32"))),
      Assign(Temp(2), LenOf(Arg(0))),
      Assign(Temp(2), Repeat(ArgX)),
      Assign(Static, Use(ArgX)),
      Assign(Projection(Temp(2), Field(0)), Use(ArgX)),
      Assign(Projection(Temp(1), Index), Use(ArgX)) }

\* assignments whose target is read by the right-hand side
SelfStmts ==
    { Assign(Temp(2), BinaryOp(op, Consume(Temp(2)), ConstI32(1))) :
        op \in {"Add", "Sub", "Mul", "Div", "Rem"} }
    \cup { Assign(Temp(2), BinaryOp(op, ArgX, Consume(Temp(2)))) :
        op \in {"Add", "Sub", "Mul", "Div", "Rem"} }
    \cup { Assign(Temp(3), BinaryOp("Sub", ArgA, Consume(Temp(3)))),
           Assign(Arg(0), BinaryOp("Div", ArgY, ArgX)),
           Assign(Temp(1), CheckedBinaryOp("Add", Consume(Tmp1Value), ConstI32(1))) }

SingleStmts == BinaryStmts \cup OtherStmts \cup SelfStmts

RECURSIVE SeqsUpTo(_, _)
SeqsUpTo(n, S) ==
    IF n = 0 THEN {<<>>}
    ELSE LET shorter == SeqsUpTo(n - 1, S) IN
         shorter \cup {Append(q, e) : q \in {r \in shorter : Len(r) = n - 1}, e \in S}

\* terminators of the entry block of a chain: successors are bb1 and bb2
EntryTerminators ==
    { Goto(1),
      AssertTerm(Consume(Tmp1Flag), 1),
      Return,
      Call(PanicCallee, <<ConstI32(1)>>),
      Call(OtherCallee, <<>>),
      Call(Consume(Var(0)), <<>>),
      If(Consume(Temp(0)), 1, 2),
      If(ConstBool(TRUE), 2, 1),
      If(ConstI32(1), 1, 2),
      Goto(0),
      Unsupported("SwitchInt"),
      Unsupported("Drop") }

SecondBlocks ==
    { BasicBlockData(<<>>, Return),
      BasicBlockData(<<Assign(ReturnPointer, Use(Consume(Tmp1Value)))>>, Goto(2)),
      BasicBlockData(<<Assign(Temp(2), Box(Ty("i32")))>>, Return),
      BasicBlockData(<<Assign(Temp(2), Use(ArgY))>>, Call(PanicCallee, <<>>)),
      BasicBlockData(<<>>, If(Consume(Temp(0)), 2, 0)),
      BasicBlockData(<<>>, Unsupported("Resume")) }

ThirdBlocks ==
    { BasicBlockData(<<>>, Return),
      BasicBlockData(<<Assign(Temp(2), LenOf(Arg(0)))>>, Call(PanicCallee, <<ArgX>>)) }

\* bb0 -> bb1 -> bb2 with every shape of entry block
ChainPrograms ==
    { <<BasicBlockData(ss, t), b1, b2>> :
        ss \in SeqsUpTo(MaxStmts, StmtPool), t \in EntryTerminators,
        b1 \in SecondBlocks, b2 \in ThirdBlocks }

\* bb0: one statement; goto bb1; bb1: return  (and the same in one block)
SingleStmtPrograms ==
    { <<BasicBlockData(<<s>>, Goto(1)), BasicBlockData(<<>>, Return)>> : s \in SingleStmts }
    \cup { <<BasicBlockData(<<s>>, Return)>> : s \in SingleStmts }

\* fn f(x: i32) -> i32 { assert!(x > 0); x - 1 }
\* bb0: tmp0 = Gt(x, const 0); if(tmp0) -> [true: bb1, false: bb2]
\* bb1: tmp1 = CheckedSub(x, const 1); assert(!tmp1.1) -> bb3
\* bb2: begin_panic(..)
\* bb3: return = tmp1.0; then either goto bb4 with bb4: return, or return
EndToEnd(last) ==
    << BasicBlockData(<<Assign(Temp(0), BinaryOp("Gt", ArgX, ConstI32(0)))>>,
                      If(Consume(Temp(0)), 1, 2)),
       BasicBlockData(<<Assign(Temp(1), CheckedBinaryOp("Sub", ArgX, ConstI32(1)))>>,
                      AssertTerm(Consume(Tmp1Flag), 3)),
       BasicBlockData(<<>>, Call(PanicCallee, <<>>)),
       BasicBlockData(<<Assign(ReturnPointer, Use(Consume(Tmp1Value)))>>, last),
       BasicBlockData(<<>>, Return) >>

EndToEndPrograms == {EndToEnd(Goto(4)), EndToEnd(Return)}

Programs == ChainPrograms \cup SingleStmtPrograms \cup EndToEndPrograms

\* fn f(tmp2: i32, ..) and fn f(var0: i32, ..): identifiers a programmer may
\* give an argument
FirstArgNames == {"tmp2", "var0"}

\* bb0: return = <first argument>; goto bb1, after a write to tmp2 or var0
ShadowPrograms ==
    { <<BasicBlockData(<<Assign(l, Use(ConstI32(7))), Assign(ReturnPointer, Use(ArgX))>>,
                       Goto(1)),
        BasicBlockData(<<>>, Return)>> : l \in {Temp(2), Var(0)} }

ReturnVar == VariableMapping(VariableMappingData("return", "I32"))
PostTrue == BooleanLiteral(TRUE)
PostReturn == BinaryExpression("GreaterThanOrEqual", ReturnVar, SignedBitVector(32, 0))
PostLocals ==
    BinaryExpression("And",
        BinaryExpression("LessThan",
            VariableMapping(VariableMappingData("tmp2", "I32")),
            VariableMapping(VariableMappingData("var0", "I32"))),
        BinaryExpression("Equal",
            VariableMapping(VariableMappingData("tmp3", "U8")),
            VariableMapping(VariableMappingData("tmp4.0", "U8"))))
\* the value element, the flag element and the unqualified name of tmp1
PostTuple ==
    BinaryExpression("And",
        BinaryExpression("GreaterThanOrEqual",
            VariableMapping(VariableMappingData("tmp1.0", "I32")),
            SignedBitVector(32, 0)),
        BinaryExpression("And",
            BinaryExpression("Equal",
                VariableMapping(VariableMappingData("tmp1", "I32")),
                VariableMapping(VariableMappingData("tmp1", "I32"))),
            UnaryExpression("Not",
                VariableMapping(VariableMappingData("tmp1.1", "Bool")))))
Postconditions == {PostTrue, PostReturn, PostLocals, PostTuple}

Init ==
    /\ data \in {Declarations(p) : p \in Programs}
                \cup {DeclarationsNamed(p, n) : p \in ShadowPrograms, n \in FirstArgNames}
    /\ post_expr \in Postconditions
    /\ stack = <<Frame(0)>>
    /\ outcome = "running"
    /\ result = Unset
    /\ returned = [i \in 0..(Len(data.block_data) - 1) |-> Unset]

Next ==
    \/ GotoOrAssert
    \/ ReturnTerminator
    \/ CallTerminator
    \/ IfTerminator
    \/ IfElse
    \/ IfCondition
    \/ UnimplementedTerminator
    \/ FoldStatement
    \/ ReturnWp

Spec == Init /\ [][Next]_vars

TypeOK ==
    /\ outcome \in {"running", "returned", "fatal"}
    /\ Len(stack) <= MaxDepth
    /\ (outcome = "running") <=> (stack # <<>>)

(***************************************************************************)
(* Properties                                                              *)
(***************************************************************************)
Blocks == DOMAIN returned
Returned(i) == returned[i] # Unset
TerminatorOf(i) == Block(i).terminator
StatementsOf(i) == Block(i).statements
IsPanicCall(t) ==
    /\ t.kind = "Call"
    /\ t.func.kind = "Constant"
    /\ Contains(DebugLiteral(t.func.literal), "begin_panic")

\* the predicate an If terminator contributes, written out leaf by leaf
BranchMerge(c, wpTrue, wpFalse) ==
    [kind |-> "BinaryExpression", op |-> "And",
     left |-> [kind |-> "BinaryExpression", op |-> "Implication",
               left |-> c, right |-> wpTrue],
     right |-> [kind |-> "BinaryExpression", op |-> "Implication",
                left |-> [kind |-> "UnaryExpression", op |-> "Not", e |-> c],
                right |-> wpFalse]]
ConditionOf(cond) ==
    IF cond.kind = "Constant"
    THEN [kind |-> "BooleanLiteral", value |-> cond.literal.value.b]
    ELSE VariableMapping(gen_lvalue(cond.lvalue, data))

\* C1: a block with an If terminator and no statements returns exactly
\* (c -> wp(tTrue)) AND ((NOT c) -> wp(tFalse)), c being the variable or the
\* boolean literal of the condition; two Return targets both give the
\* postcondition.
C1_BranchMerge ==
    \A i \in Blocks :
        (Returned(i) /\ TerminatorOf(i).kind = "If" /\ StatementsOf(i) = <<>>) =>
            LET t == TerminatorOf(i)
                tTrue == t.targets[1]
                tFalse == t.targets[2]
            IN  /\ returned[i] = BranchMerge(ConditionOf(t.cond),
                                             returned[tTrue], returned[tFalse])
                /\ (TerminatorOf(tTrue).kind = "Return" => returned[tTrue] = post_expr)
                /\ (TerminatorOf(tFalse).kind = "Return" => returned[tFalse] = post_expr)

C1_Witness ==
    /\ outcome = "returned"
    /\ TerminatorOf(0).kind = "If"
    /\ StatementsOf(0) = <<>>
    /\ TerminatorOf(0).cond.kind = "Consume"
    /\ returned[1] # returned[2]
    /\ result = BranchMerge(ConditionOf(TerminatorOf(0).cond), returned[1], returned[2])

\* the statements ss folded backward over the predicate T, last one first
RECURSIVE FoldStatements(_, _)
FoldStatements(ss, T) ==
    IF ss = <<>> THEN T
    ELSE LET rest == FoldStatements(Tail(ss), T) IN
         IF IsFatal(rest) THEN Fatal ELSE gen_stmt(rest, Head(ss), data)

\* the predicate the terminator of block i contributes
TerminatorPredicate(i) ==
    LET t == TerminatorOf(i) IN
    CASE t.kind = "Return" -> post_expr
      [] t.kind \in {"Goto", "Assert"} -> returned[t.target]
      [] t.kind = "If" ->
            BranchMerge(ConditionOf(t.cond), returned[t.targets[1]], returned[t.targets[2]])

\* C2: the WP at the entry of any block, a Return block included, is the
\* terminator's predicate with every statement of the block folded backward
\* over it.
C2_EveryBlockFolded ==
    \A i \in Blocks :
        (/\ Returned(i)
         /\ TerminatorOf(i).kind \in {"Return", "Goto", "Assert", "If"}
         /\ ~IsFatal(FoldStatements(StatementsOf(i), TerminatorPredicate(i)))) =>
            returned[i] = FoldStatements(StatementsOf(i), TerminatorPredicate(i))

\* C3: the recursion depth of gen never exceeds the number of blocks, which
\* bounds the longest acyclic path from the entry block.
C3_DepthBounded == Len(stack) <= Len(data.block_data)

Successors(i) ==
    LET t == TerminatorOf(i) IN
    CASE t.kind \in {"Goto", "Assert"} -> {t.target}
      [] t.kind = "If" -> {t.targets[1], t.targets[2]}
      [] OTHER -> {}
RECURSIVE ReachableFrom(_, _)
ReachableFrom(S, n) ==
    IF n = 0 THEN S
    ELSE ReachableFrom(S \cup UNION {Successors(i) : i \in S}, n - 1)
ReachableBlocks == ReachableFrom({0}, Len(data.block_data))
UnsupportedTerminatorAt(i) ==
    LET t == TerminatorOf(i) IN
    \/ t.kind \notin SupportedTerminators
    \/ t.kind = "Call" /\ ~IsPanicCall(t)
UnsupportedRvalue(rvalue) ==
    \/ rvalue.kind \in {"Box", "Len"}
    \/ rvalue.kind = "Aggregate" /\ rvalue.ag_kind # "Tuple"
UnsupportedStatementAt(i) ==
    \E k \in 1..Len(StatementsOf(i)) : UnsupportedRvalue(StatementsOf(i)[k].rvalue)

\* C4: when a block reachable from the entry has an unsupported terminator or
\* a statement with an unsupported rvalue, gen returns no Expression.
C4_FatalOnUnsupported ==
    (\E i \in ReachableBlocks : UnsupportedTerminatorAt(i) \/ UnsupportedStatementAt(i))
        => outcome # "returned"

\* C5: a Call block whose constant callee names begin_panic returns
\* BooleanLiteral(false) whatever its statements, arguments and the
\* postcondition are; any other Call is fatal and returns nothing.
C5_PanicSink ==
    [][(Running /\ Top.pc = "terminator" /\ Terminator.kind = "Call") =>
        IF IsPanicCall(Terminator)
        THEN /\ returned'[Top.index] = [kind |-> "BooleanLiteral", value |-> FALSE]
             /\ outcome' # "fatal"
             /\ (Len(stack) = 1 =>
                    result' = [kind |-> "BooleanLiteral", value |-> FALSE])
        ELSE /\ outcome' = "fatal"
             /\ result' = Fatal
             /\ returned' = returned]_vars

C5_Witness ==
    /\ outcome = "returned"
    /\ IsPanicCall(TerminatorOf(0))
    /\ StatementsOf(0) # <<>>
    /\ TerminatorOf(0).args # <<>>
    /\ post_expr # PostTrue
    /\ result = BooleanLiteral(FALSE)

\* blocks made of one division or remainder followed by Goto or Assert
IsDivRem(stmt) ==
    /\ stmt.rvalue.kind \in {"BinaryOp", "CheckedBinaryOp"}
    /\ stmt.rvalue.binop \in {"Div", "Rem"}
DivRemBlock(i) ==
    /\ Returned(i)
    /\ TerminatorOf(i).kind \in {"Goto", "Assert"}
    /\ Len(StatementsOf(i)) = 1
    /\ IsDivRem(StatementsOf(i)[1])

\* t := a / b (or %) folded into Q: guards conjoined first, target substituted last
ExpectedDivRem(stmt, Q) ==
    LET a == gen_expression(stmt.rvalue.l, data)
        b == gen_expression(stmt.rvalue.r, data)
        target == gen_lvalue(stmt.lvalue, data)
        key == IF stmt.rvalue.kind = "CheckedBinaryOp"
               THEN VariableMappingData(target.name \o ".0", target.var_type)
               ELSE target
        bType == determine_evaluation_type(b)
        signed == bType \in {"I8", "I16", "I32", "I64"}
        zero == [kind |-> IF signed THEN "SignedBitVector" ELSE "UnsignedBitVector",
                 size |-> WidthOf(bType), value |-> 0]
        nonzero == [kind |-> "BinaryExpression", op |-> "NotEqual",
                    left |-> b, right |-> zero]
        before == IF signed
                  THEN BinaryExpression("And",
                           overflow_check(Q, target, stmt.rvalue.binop, a, b), nonzero)
                  ELSE BinaryExpression("And", Q, nonzero)
        quotient == BinaryExpression(IF stmt.rvalue.binop = "Div" THEN "Division" ELSE "Modulo",
                                     a, b)
    IN  substitute_variable_with_expression(before, key, quotient)

\* C6: t := a / b or t := a % b, plain or checked, folded into Q: unsigned
\* operands add the single conjunct b != 0 (zero of b's width and signedness),
\* signed operands add the overflow pair and b != 0; the target is substituted
\* after the conjuncts are in place.
C6_DivisionGuards ==
    \A i \in Blocks :
        DivRemBlock(i) =>
            returned[i] = ExpectedDivRem(StatementsOf(i)[1], returned[TerminatorOf(i).target])

C6_Witness ==
    /\ outcome = "returned"
    /\ DivRemBlock(0)
    /\ StatementsOf(0)[1].rvalue.kind = "BinaryOp"
    /\ StatementsOf(0)[1].rvalue.l = ArgA
    /\ StatementsOf(0)[1].rvalue.r = ArgB
    /\ post_expr = PostLocals
    /\ result.right = BinaryExpression("NotEqual",
                          VariableMapping(VariableMappingData("b", "U8")),
                          UnsignedBitVector(8, 0))
    /\ result.left # post_expr

\* blocks made only of plain reads, followed by Goto or Assert
UseOnlyBlock(i) ==
    /\ Returned(i)
    /\ TerminatorOf(i).kind \in {"Goto", "Assert"}
    /\ \A k \in 1..Len(StatementsOf(i)) : StatementsOf(i)[k].rvalue.kind = "Use"

\* Q with the target of every plain read replaced by its operand, last first
RECURSIVE RenameAll(_, _)
RenameAll(ss, Q) ==
    IF ss = <<>> THEN Q
    ELSE substitute_variable_with_expression(RenameAll(Tail(ss), Q),
                                             gen_lvalue(Head(ss).lvalue, data),
                                             gen_expression(Head(ss).rvalue.operand, data))

\* the number of conjuncts of a predicate
RECURSIVE Conjuncts(_)
Conjuncts(e) ==
    IF e.kind = "BinaryExpression" /\ e.op = "And"
    THEN Conjuncts(e.left) + Conjuncts(e.right)
    ELSE 1

\* C7: a block of plain reads followed by Goto or Assert returns the
\* successor's WP with every assigned target replaced by its operand, from the
\* last statement to the first, and with no conjunct added.
C7_StraightLinePassthrough ==
    \A i \in Blocks :
        UseOnlyBlock(i) =>
            LET Q == returned[TerminatorOf(i).target] IN
            /\ returned[i] = RenameAll(StatementsOf(i), Q)
            /\ Conjuncts(returned[i]) = Conjuncts(Q)

C7_Witness ==
    /\ outcome = "returned"
    /\ UseOnlyBlock(0)
    /\ Len(StatementsOf(0)) = 2
    /\ TerminatorOf(0).kind = "Assert"
    /\ result # returned[1]
    /\ result # RenameAll(Reverse(StatementsOf(0)), returned[1])

\* a frame that waits for a callee has folded nothing; a frame that folds has
\* its terminator predicate and the not yet folded statements, last one first
FoldProgress(frame) ==
    LET ss == StatementsOf(frame.index)
        n == Len(ss)
        m == Len(frame.stmts)
    IN  IF frame.pc = "statements"
        THEN /\ m <= n
             /\ frame.stmts = [k \in 1..m |-> ss[m + 1 - k]]
             /\ frame.wp = FoldStatements(SubSeq(ss, m + 1, n), TerminatorPredicate(frame.index))
        ELSE frame.stmts = <<>> /\ frame.wp = Unset

BoolNames == {"tmp0", "tmp1.1", "tmp4.1"}
IntNames == {"x", "y", "a", "b", "tmp1", "tmp1.0", "tmp2", "tmp3", "tmp4.0", "var0", "var1", "return"}

\* a valuation: the arguments, the return slot and tmp2 vary, the rest is 0
Valuation(x, y, a, b, t, r) ==
    [n \in BoolNames \cup IntNames |->
        CASE n \in BoolNames -> FALSE
          [] n = "x" -> x
          [] n = "y" -> y
          [] n = "a" -> a
          [] n = "b" -> b
          [] n = "tmp2" -> t
          [] n = "return" -> r
          [] OTHER -> 0]

Valuations ==
    { Valuation(x, y, a, b, 0, 0) : x \in {-2, 1}, y \in {0, 3}, a \in {1, 255}, b \in {0, 1} }

\* division and remainder that truncate toward zero
Abs(n) == IF n < 0 THEN 0 - n ELSE n
TruncDiv(m, n) ==
    IF n = 0 THEN 0
    ELSE IF (m < 0) = (n < 0) THEN Abs(m) \div Abs(n) ELSE 0 - (Abs(m) \div Abs(n))
TruncRem(m, n) == IF n = 0 THEN 0 ELSE m - n * TruncDiv(m, n)

Arith(op, m, n) ==
    CASE op = "Addition" -> m + n
      [] op = "Subtraction" -> m - n
      [] op = "Multiplication" -> m * n
      [] op = "Division" -> TruncDiv(m, n)
      [] op = "Modulo" -> TruncRem(m, n)
Compare(op, m, n) ==
    CASE op = "LessThan" -> m < n
      [] op = "LessThanOrEqual" -> m <= n
      [] op = "GreaterThan" -> m > n
      [] op = "GreaterThanOrEqual" -> m >= n
      [] op = "Equal" -> m = n
      [] op = "NotEqual" -> m # n

\* the value of an Expression under a valuation, over the integers
RECURSIVE Eval(_, _)
Eval(e, env) ==
    CASE e.kind = "BooleanLiteral" -> e.value
      [] e.kind \in {"SignedBitVector", "UnsignedBitVector"} -> e.value
      [] e.kind = "VariableMapping" -> env[e.name]
      [] e.kind = "UnaryExpression" ->
            IF e.op = "Not" THEN ~Eval(e.e, env) ELSE 0 - Eval(e.e, env)
      [] e.kind = "BinaryExpression" ->
            CASE e.op = "And" -> Eval(e.left, env) /\ Eval(e.right, env)
              [] e.op = "Or" -> Eval(e.left, env) \/ Eval(e.right, env)
              [] e.op = "Implication" -> Eval(e.left, env) => Eval(e.right, env)
              [] e.op \in {"Addition", "Subtraction", "Multiplication", "Division", "Modulo"} ->
                    Arith(e.op, Eval(e.left, env), Eval(e.right, env))
              [] OTHER -> Compare(e.op, Eval(e.left, env), Eval(e.right, env))

\* statements whose effect the execution below defines
ArithOps == {"Add", "Sub", "Mul", "Div", "Rem"}
Executable(stmt) ==
    /\ stmt.lvalue.kind \in {"Temp", "Var", "ReturnPointer"}
    /\ \/ stmt.rvalue.kind \in {"BinaryOp", "CheckedBinaryOp"}
          /\ stmt.rvalue.binop \in ArithOps
       \/ stmt.rvalue.kind = "BinaryOp" /\ stmt.rvalue.binop \in ComparisonOps
       \/ stmt.rvalue.kind = "Use" /\ ~IsFatal(gen_expression(stmt.rvalue.operand, data))
       \/ stmt.rvalue.kind = "UnaryOp" /\ stmt.rvalue.unop = "Neg"

OperandValue(operand, env) == Eval(gen_expression(operand, data), env)

\* one assignment: the valuation after it, or the failure it runs into
ExecStatement(stmt, env) ==
    LET target == gen_lvalue(stmt.lvalue, data)
        rvalue == stmt.rvalue
    IN
    IF rvalue.kind \in {"BinaryOp", "CheckedBinaryOp"}
    THEN LET m == OperandValue(rvalue.l, env)
             n == OperandValue(rvalue.r, env)
         IN  IF rvalue.binop \in ComparisonOps
             THEN [status |-> "ok",
                   env |-> [env EXCEPT ![target.name] =
                                Compare(BinOpOperator(rvalue.binop), m, n)]]
             ELSE IF rvalue.binop \in {"Div", "Rem"} /\ n = 0
             THEN [status |-> "division by zero", env |-> env]
             ELSE LET v == Arith(BinOpOperator(rvalue.binop), m, n) IN
                  IF v > MaxValue(target.var_type) \/ v < MinValue(target.var_type)
                  THEN [status |-> "overflow", env |-> env]
                  ELSE IF rvalue.kind = "CheckedBinaryOp"
                  THEN [status |-> "ok",
                        env |-> [env EXCEPT ![target.name \o ".0"] = v,
                                            ![target.name \o ".1"] = FALSE]]
                  ELSE [status |-> "ok", env |-> [env EXCEPT ![target.name] = v]]
    ELSE IF rvalue.kind = "Use"
    THEN [status |-> "ok",
          env |-> [env EXCEPT ![target.name] = OperandValue(rvalue.operand, env)]]
    ELSE [status |-> "ok",
          env |-> [env EXCEPT ![target.name] = 0 - OperandValue(rvalue.val, env)]]

RECURSIVE ExecStatements(_, _)
ExecStatements(ss, env) ==
    IF ss = <<>> THEN [status |-> "ok", env |-> env]
    ELSE LET first == ExecStatement(Head(ss), env) IN
         IF first.status # "ok" THEN first ELSE ExecStatements(Tail(ss), first.env)

\* execution from block i: the statements in order, then the terminator
RECURSIVE ExecBlock(_, _, _)
ExecBlock(i, env, fuel) ==
    LET after == ExecStatements(StatementsOf(i), env)
        t == TerminatorOf(i)
    IN  IF after.status # "ok" THEN after
        ELSE IF fuel = 0 THEN [status |-> "diverges", env |-> after.env]
        ELSE CASE t.kind = "Return" -> after
               [] t.kind \in {"Goto", "Assert"} -> ExecBlock(t.target, after.env, fuel - 1)
               [] t.kind = "If" ->
                    IF Eval(ConditionOf(t.cond), after.env)
                    THEN ExecBlock(t.targets[1], after.env, fuel - 1)
                    ELSE ExecBlock(t.targets[2], after.env, fuel - 1)
               [] OTHER -> [status |-> "panic", env |-> after.env]

\* CFGs the execution is defined on: every reachable statement executable
ExecutableProgram ==
    \A i \in ReachableBlocks :
        /\ TerminatorOf(i).kind \in SupportedTerminators
        /\ TerminatorOf(i).kind = "If" => ~IsFatal(IfConditionExpression(TerminatorOf(i).cond, data))
        /\ \A k \in 1..Len(StatementsOf(i)) : Executable(StatementsOf(i)[k])

\* C8: every valuation that satisfies the Expression gen returned runs from
\* the entry block without overflow, division by zero or panic and reaches
\* Return in a state that satisfies the postcondition.
C8_Soundness ==
    (outcome = "returned" /\ ExecutableProgram) =>
        \A env \in Valuations :
            Eval(result, env) =>
                LET run == ExecBlock(0, env, Len(data.block_data)) IN
                run.status = "ok" /\ Eval(post_expr, run.env)

\* valuations for f(x: i32) -> i32: x and the return slot vary
EndToEndValuations ==
    { Valuation(x, 0, 0, 0, 0, r) : x \in {-3, 0, 1, 2, 2147483647}, r \in {-1, 0, 7} }

\* C9: for fn f(x: i32) -> i32 { assert!(x > 0); x - 1 } with postcondition
\* return >= 0, every x > 0 satisfies the predicate gen returns at the entry
\* block (x > 0 AND NOT WP has no model).
C9_EndToEnd ==
    (outcome = "returned" /\ data.block_data \in EndToEndPrograms /\ post_expr = PostReturn) =>
        \A env \in EndToEndValuations : env["x"] > 0 => Eval(result, env)

(***************************************************************************)
(* Arithmetic assignments: guard pair, substitution key                    *)
(***************************************************************************)
\* blocks made of one addition, subtraction or multiplication, plain or
\* checked, followed by Goto or Assert
ArithBlock(i) ==
    /\ Returned(i)
    /\ TerminatorOf(i).kind \in {"Goto", "Assert"}
    /\ Len(StatementsOf(i)) = 1
    /\ StatementsOf(i)[1].rvalue.kind \in {"BinaryOp", "CheckedBinaryOp"}
    /\ StatementsOf(i)[1].rvalue.binop \in {"Add", "Sub", "Mul"}

\* the key an arithmetic assignment substitutes: target.0 for the checked form
KeyOf(stmt) ==
    LET target == gen_lvalue(stmt.lvalue, data) IN
    IF stmt.rvalue.kind = "CheckedBinaryOp"
    THEN [target EXCEPT !.name = target.name \o ".0"]
    ELSE target

\* a op b of an arithmetic assignment
ValueOf(stmt) ==
    BinaryExpression(BinOpOperator(stmt.rvalue.binop),
                     gen_expression(stmt.rvalue.l, data),
                     gen_expression(stmt.rvalue.r, data))

\* e <= MAX and e >= MIN for the target's type
GuardPair(stmt, e) ==
    LET ty == gen_lvalue(stmt.lvalue, data).var_type IN
    BinaryExpression("And",
        BinaryExpression("LessThanOrEqual", e, BitVector(ty, MaxValue(ty))),
        BinaryExpression("GreaterThanOrEqual", e, BitVector(ty, MinValue(ty))))

\* C11: target := a op b with op add, sub or mul, plain or checked, folded
\* into Q gives (Q AND guard pair)[key := a op b]: the pair is conjoined
\* first and the substitution rewrites Q and the pair alike.
C11_GuardThenSubstitute ==
    \A i \in Blocks :
        ArithBlock(i) =>
            LET stmt == StatementsOf(i)[1]
                Q == returned[TerminatorOf(i).target]
                key == KeyOf(stmt)
                e == ValueOf(stmt)
            IN  returned[i] =
                    BinaryExpression("And",
                        substitute_variable_with_expression(Q, key, e),
                        substitute_variable_with_expression(GuardPair(stmt, e), key, e))

\* tmp2 := tmp2 op 1 or tmp2 := x op tmp2: the key occurs in Q and in the pair
C11_Witness ==
    /\ outcome = "returned"
    /\ ArithBlock(0)
    /\ post_expr = PostLocals
    /\ StatementsOf(0)[1].lvalue = Temp(2)
    /\ result.left # post_expr
    /\ result.right # GuardPair(StatementsOf(0)[1], ValueOf(StatementsOf(0)[1]))

\* the number of leaves of e that carry the name n
RECURSIVE Occurrences(_, _)
Occurrences(e, n) ==
    CASE e.kind = "VariableMapping" -> IF e.name = n THEN 1 ELSE 0
      [] e.kind = "UnaryExpression" -> Occurrences(e.e, n)
      [] e.kind = "BinaryExpression" -> Occurrences(e.left, n) + Occurrences(e.right, n)
      [] OTHER -> 0

\* blocks made of one binary operation followed by Goto or Assert
BinaryBlock(i) ==
    /\ Returned(i)
    /\ TerminatorOf(i).kind \in {"Goto", "Assert"}
    /\ Len(StatementsOf(i)) = 1
    /\ StatementsOf(i)[1].rvalue.kind \in {"BinaryOp", "CheckedBinaryOp"}

\* the declared type of the value element of a tuple temporary
ValueElementType(lvalue) == string_to_type(data.temp_data[lvalue.index + 1].ty.t[1].text)

\* C12: a checked operation substitutes the key target.0, typed as the value
\* element of the tuple: every target.0 becomes a op b while the unqualified
\* target and target.1 stay as they are; a plain operation substitutes the
\* unqualified target.
C12_CheckedKey ==
    \A i \in Blocks :
        BinaryBlock(i) =>
            LET stmt == StatementsOf(i)[1]
                Q == returned[TerminatorOf(i).target]
                name == gen_lvalue(stmt.lvalue, data).name
                e == ValueOf(stmt)
                fresh == \A n \in {name, name \o ".0", name \o ".1"} : Occurrences(e, n) = 0
            IN  IF stmt.rvalue.kind = "CheckedBinaryOp"
                THEN /\ KeyOf(stmt).var_type = ValueElementType(stmt.lvalue)
                     /\ fresh =>
                            /\ Occurrences(returned[i], name \o ".0") = 0
                            /\ Occurrences(returned[i], name) = Occurrences(Q, name)
                            /\ Occurrences(returned[i], name \o ".1")
                                    = Occurrences(Q, name \o ".1")
                ELSE fresh =>
                        /\ Occurrences(returned[i], name) = 0
                        /\ Occurrences(returned[i], name \o ".0")
                                = Occurrences(Q, name \o ".0")

\* tmp1 := CheckedAdd(x, y) under a postcondition that names tmp1.0, tmp1
\* and tmp1.1
C12_Witness ==
    /\ outcome = "returned"
    /\ BinaryBlock(0)
    /\ StatementsOf(0)[1] = Assign(Temp(1), CheckedBinaryOp("Add", ArgX, ArgY))
    /\ post_expr = PostTuple
    /\ Occurrences(post_expr, "tmp1.0") = 1
    /\ Occurrences(result, "tmp1.0") = 0
    /\ Occurrences(result, "tmp1") = 2
    /\ Occurrences(result, "tmp1.1") = 1

(***************************************************************************)
(* Aggregates                                                              *)
(***************************************************************************)
\* the entry block is one aggregate assignment followed by Goto or Assert,
\* and the walk has come to an end
AggregateEntry ==
    /\ outcome # "running"
    /\ TerminatorOf(0).kind \in {"Goto", "Assert"}
    /\ Len(StatementsOf(0)) = 1
    /\ StatementsOf(0)[1].rvalue.kind = "Aggregate"

\* every operand of the aggregate has a type that resolves
OperandsResolve(rvalue) ==
    \A k \in 1..Len(rvalue.operands) : gen_ty(rvalue.operands[k], data) # "Fatal"

Locations ==
    { Arg(i) : i \in 0..(Len(data.arg_data) - 1) }
    \cup { Temp(i) : i \in 0..(Len(data.temp_data) - 1) }
    \cup { Var(i) : i \in 0..(Len(data.var_data) - 1) }
    \cup { ReturnPointer }
    \cup { Projection(Temp(i), Field(f)) :
             i \in { k \in 0..(Len(data.temp_data) - 1) :
                        data.temp_data[k + 1].ty.sty = "TyTuple" },
             f \in 0..1 }

\* C14: two different storage locations never resolve through gen_lvalue to
\* the same VariableMapping name, whatever the arguments are called in the
\* source.
C14_NameDisjoint ==
    \A l1, l2 \in Locations :
        l1 # l2 => gen_lvalue(l1, data).name # gen_lvalue(l2, data).name

(***************************************************************************)
(* Assignments that read their own target                                  *)
(***************************************************************************)
\* blocks made of one plain arithmetic assignment whose target is one of its
\* operands, followed by Goto or Assert
SelfBlock(i) ==
    /\ Returned(i)
    /\ TerminatorOf(i).kind \in {"Goto", "Assert"}
    /\ Len(StatementsOf(i)) = 1
    /\ StatementsOf(i)[1].rvalue.kind = "BinaryOp"
    /\ StatementsOf(i)[1].rvalue.binop \in ArithOps
    /\ Occurrences(ValueOf(StatementsOf(i)[1]),
                   gen_lvalue(StatementsOf(i)[1].lvalue, data).name) > 0

\* the conjuncts of a predicate, left to right
RECURSIVE ConjunctList(_)
ConjunctList(e) ==
    IF e.kind = "BinaryExpression" /\ e.op = "And"
    THEN ConjunctList(e.left) \o ConjunctList(e.right)
    ELSE <<e>>

\* the guards of target := a op b over a and b as the statement reads them
OperandGuards(stmt) ==
    Tail(ConjunctList(BinOpGuards(BooleanLiteral(TRUE), gen_lvalue(stmt.lvalue, data),
                                  stmt.rvalue.binop,
                                  gen_expression(stmt.rvalue.l, data),
                                  gen_expression(stmt.rvalue.r, data))))

\* valuations in which the temporaries tmp2 and tmp3 vary as well
SelfValuations ==
    { [Valuation(x, y, a, 0, t, 0) EXCEPT !["tmp3"] = u] :
        x \in {-2, 1}, y \in {0, 3}, a \in {1, 255}, t \in {0, 2}, u \in {0, 2} }

\* C15: for target := a op b whose target is one of the operands, the guard
\* in the returned predicate constrains the operands as read before the
\* assignment: its conjuncts stand over a and b unrewritten, and a valuation
\* that satisfies the predicate runs the statement without overflow or
\* division by zero.
C15_GuardReadsOldOperands ==
    \A i \in Blocks :
        SelfBlock(i) =>
            LET stmt == StatementsOf(i)[1]
                guards == OperandGuards(stmt)
                conjuncts == ConjunctList(returned[i])
            IN  /\ \A k \in 1..Len(guards) :
                        \E j \in 1..Len(conjuncts) : conjuncts[j] = guards[k]
                /\ \A env \in SelfValuations :
                        Eval(returned[i], env) => ExecStatement(stmt, env).status = "ok"

====
